---- MODULE Spec2Model ----
(***************************************************************************)
(* Test-taking session (src/src/components/TestTake.tsx, first component   *)
(* of the file) together with the playlist_student_progress row it writes. *)
(*                                                                         *)
(* React scheduling as modelled here:                                      *)
(*  - a click handler runs and its state updates are rendered and their    *)
(*    effects flushed before the next event (discrete events are           *)
(*    synchronous), so a click action includes CommitRender;               *)
(*  - state updates made from a timer callback or from the continuation of *)
(*    an awaited request are only queued (dirty = TRUE); the render that   *)
(*    applies them, refreshes the refs, rebuilds the handleFinish closure  *)
(*    and re-runs the timer effect is the separate action Commit;          *)
(*  - the interval period (1000 ms) is longer than the latency of a queued *)
(*    render, so no second tick is delivered while a render is pending.    *)
(***************************************************************************)
EXTENDS Integers, Sequences, FiniteSets, TLC

\* ---------------------------------------------------------------- bounds
MaxQuestions == 2
MaxVariants == 2
MaxSessions == 2
MaxTimeMinutes == 2
MaxEdits == 1
MaxViews == 2
MaxRecorders == 2

\* ------------------------------------------------------ program constants
SecondsPerMinute == 60
DefaultTimeMinutes == 60

\* null for ids; absent values (testResults, the progress row, scored) are
\* the empty sequence and present ones a one-element sequence
Null == "null"

TestIds == {"t1", "t2"}
PlaylistIds == {"p1"}

\* location.state values an answer position can carry: in-range variant
\* positions and the out-of-range ones on either side
AnswerValues == (-1)..MaxVariants
Positions == 0..(MaxQuestions - 1)

\* a question is its ordered list of variants, a variant its is_correct flag
RECURSIVE SeqsUpTo(_, _)
SeqsUpTo(S, n) ==
  IF n = 0 THEN {<<>>}
  ELSE LET shorter == SeqsUpTo(S, n - 1)
       IN shorter \cup {Append(s, x) : s \in {t \in shorter : Len(t) = n - 1}, x \in S}

VariantLists == SeqsUpTo(BOOLEAN, MaxVariants)
QuestionLists == SeqsUpTo(VariantLists, MaxQuestions)

\* rows of tests / test_questions / test_question_variants used by Spec:
\* t1 is the two-question test of the scenarios (correct variants 0 and 1),
\* t2 a one-question test none of whose variants is marked correct
FixtureQuestions ==
  [t \in TestIds |->
     IF t = "t1" THEN << <<TRUE, FALSE>>, <<FALSE, TRUE>> >>
                 ELSE << <<FALSE, FALSE>> >>]

\* tests.time_minutes and tests.file_url / file_content of the stored tests
TimeMinutes == [t \in TestIds |-> 1]
HasFile == [t \in TestIds |-> t = "t2"]

\* values of the column tests.time_minutes (INTEGER DEFAULT 30, nullable, no
\* CHECK); 0 stands for the two falsy values, 0 and NULL
StoredTimeMinutes == 0..MaxTimeMinutes

VARIABLES
  role,            \* profile.role
  dbQuestions,     \* stored questions (with variants) of each test
  dbTimeMinutes,   \* tests.time_minutes of each test
  dbRow,           \* the playlist_student_progress row of (p1, student)
  dbOther,         \* the row of (p2, student), p2 a second playlist holding
                   \* the same lessons; Null: no other playlist holds them
  dbPlaylist,      \* playlist p1: access_mode and its playlist_tests /
                   \* course_playlists rows
  form,            \* PlaylistForm / LessonPlaylistForm of p1
  playlistView,    \* PlaylistView of p1
  loaded,          \* what the last loadPlaylist read
  edits,           \* number of times the form of p1 has been opened
  views,           \* number of times PlaylistView has been mounted
  lessonView,      \* LessonView: the course shown and its completing flag
  lessonViews,     \* number of times LessonView has been mounted
  click,           \* the handleTestClick of PlaylistView in flight
  page,            \* the route shown: "take" while TestTake is mounted
  id,              \* useParams id
  sessions,        \* number of times TestTake has been mounted
  loadPc,          \* position of loadTest
  test, questions, answers, timeRemaining, initialTime,
  error, finished, testResults, playlistId,           \* useState
  questionsRef, answersRef, initialTimeRef, timeRemainingRef,  \* useRef
  dirty,           \* queued state updates not yet rendered
  closure,         \* finished / playlistId captured by the rendered handleFinish
  rendered,        \* what the last render shows
  rTime,           \* timeRemaining of the last render (timer effect dependency)
  timers,          \* number of scheduled intervals
  timerSet,        \* the timer effect returned a cleanup
  recorders,       \* progress recordings in flight (awaiting read or write)
  dispatched,      \* 'testCompleted' events dispatched in this session
  recStarted,      \* progress recordings started in this session
  finishedBy,      \* caller of the first handleFinish that passed the guard
  ticks,           \* timer callbacks delivered in this session
  lateTick,        \* a timer callback ran after finish or after unmount
  finishRan,       \* test ids whose session ran the body of handleFinish
  opened,          \* test ids for which TestTake has been mounted
  recordFailed,    \* a progress request failed since this session was mounted
  scored,          \* the values the last handleFinish read from the refs
  recorded,        \* items whose recording ended with the item stored
  left,            \* the unfinished session that was left last (test id,
                   \* answers, timeRemaining), until the next one has loaded
  notified         \* lessons for which 'lessonCompleted' was dispatched

dbVars == <<role, dbQuestions, dbTimeMinutes, dbRow, dbOther>>
stateVars == <<test, questions, answers, timeRemaining, initialTime,
               error, finished, testResults, playlistId>>
refVars == <<questionsRef, answersRef, initialTimeRef, timeRemainingRef>>
renderVars == <<dirty, closure, rendered, rTime, timers, timerSet>>
ghostKept == <<dispatched, recStarted, finishedBy, ticks, lateTick, finishRan,
               opened, recordFailed, scored, recorded, notified>>
ghostVars == <<ghostKept, left>>
playlistVars == <<dbPlaylist, form, playlistView, loaded, edits, views>>
viewVars == <<lessonView, lessonViews, click>>
vars == <<dbVars, playlistVars, viewVars, page, id, sessions, loadPc, stateVars, refVars, renderVars,
          recorders, ghostVars>>

\* ids of the tests (for a lesson playlist: courses) a playlist can refer to
ItemIds == TestIds \cup {"t3"}

\* A playlist_tests row; a course_playlists row carries no order_index and
\* is stored here with order_index 0.
Row(itemId, orderIndex) == [id |-> itemId, order_index |-> orderIndex]

PlaylistTests == IF dbPlaylist.kind = "tests" THEN dbPlaylist.items ELSE <<>>
CoursePlaylists == IF dbPlaylist.kind = "lessons" THEN dbPlaylist.items ELSE <<>>

\* Record<number, number>: a function on the answered positions
NoAnswers == [p \in {} |-> 0]
AnswerMaps(n) ==
  UNION {[D -> AnswerValues] : D \in SUBSET {p \in Positions : p < n}}

\* location.state.answers in Spec: absent, position 0 answered with variant
\* 0, or position 0 carrying -1 (the mount effect stores what it is handed);
\* all of AnswerMaps is explored by SpecScoring
SessionNavAnswers == {NoAnswers, [p \in {0} |-> 0], [p \in {0} |-> -1]}

\* ------------------------------------------------------------- scoring
\* question.variants.findIndex((v) => v.is_correct), 0-based, -1 if none
RECURSIVE FindIndexFrom(_, _)
FindIndexFrom(variants, k) ==
  IF k > Len(variants) THEN -1
  ELSE IF variants[k] THEN k - 1
  ELSE FindIndexFrom(variants, k + 1)

\* variant of FindIndexCorrect that takes the last variant marked correct
FindIndexCorrectLast(variants) ==
  IF \E k \in 1..Len(variants) : variants[k]
  THEN (CHOOSE k \in 1..Len(variants) :
          variants[k] /\ \A j \in (k + 1)..Len(variants) : ~variants[j]) - 1
  ELSE -1

FindIndexCorrect(variants) == FindIndexFrom(variants, 1)

\* variant of IsCountedCorrect that accepts any position from the correct one on
IsCountedCorrectAtLeast(qs, ans, questionIndex) ==
  /\ questionIndex \in DOMAIN ans
  /\ ans[questionIndex] >= FindIndexCorrect(qs[questionIndex + 1])
  /\ FindIndexCorrect(qs[questionIndex + 1]) >= 0

\* the body of the forEach callback: does question questionIndex count
IsCountedCorrect(qs, ans, questionIndex) ==
  /\ questionIndex \in DOMAIN ans
  /\ ans[questionIndex] = FindIndexCorrect(qs[questionIndex + 1])

\* correctCount after currentQuestions.forEach(...)
RECURSIVE CorrectCountFrom(_, _, _)
CorrectCountFrom(qs, ans, questionIndex) ==
  IF questionIndex >= Len(qs) THEN 0
  ELSE (IF IsCountedCorrect(qs, ans, questionIndex) THEN 1 ELSE 0)
       + CorrectCountFrom(qs, ans, questionIndex + 1)

\* variant of ComputeResults with the operands of timeTaken exchanged
ComputeResultsExchanged(qs, ans, currentInitialTime, currentTimeRemaining) ==
  LET correctCount == CorrectCountFrom(qs, ans, 0)
  IN [total |-> Len(qs),
      correct |-> correctCount,
      wrong |-> Len(qs) - correctCount,
      timeTaken |-> currentTimeRemaining - currentInitialTime]

\* the object passed to setTestResults
ComputeResults(qs, ans, currentInitialTime, currentTimeRemaining) ==
  LET correctCount == CorrectCountFrom(qs, ans, 0)
  IN [total |-> Len(qs),
      correct |-> correctCount,
      wrong |-> Len(qs) - correctCount,
      timeTaken |-> currentInitialTime - currentTimeRemaining]

\* const timeMinutes = testData.time_minutes || 60; totalSeconds = timeMinutes * 60
\* (0 stands for both falsy values, 0 and null)
TotalSeconds(timeMinutes) ==
  (IF timeMinutes = 0 THEN DefaultTimeMinutes ELSE timeMinutes) * SecondsPerMinute

\* ------------------------------------------------------------ handleFinish
\* handleFinish as built by the render whose finished / playlistId values
\* are cl; caller is "timer" or "click".  Everything up to the first await.
HandleFinish(cl, caller) ==
  IF cl.finished
  THEN UNCHANGED <<finished, testResults, recorders, dispatched, recStarted,
                   finishedBy, finishRan, scored>>
  ELSE /\ finished' = TRUE
       /\ dispatched' = dispatched + 1
       /\ testResults' = <<ComputeResults(questionsRef, answersRef,
                                          initialTimeRef, timeRemainingRef)>>
       /\ scored' = <<[questions |-> questionsRef, answers |-> answersRef,
                       initialTime |-> initialTimeRef,
                       timeRemaining |-> timeRemainingRef]>>
       /\ finishedBy' = IF finishedBy = Null THEN caller ELSE finishedBy
       /\ finishRan' = finishRan \cup {id}
       /\ IF cl.playlistId # Null /\ role = "student" /\ id # Null
          THEN /\ recorders' = Append(recorders,
                                      [by |-> "TestTake", inst |-> sessions,
                                       pc |-> "read", test |-> id, upd |-> <<>>])
               /\ recStarted' = recStarted + 1
          ELSE UNCHANGED <<recorders, recStarted>>

\* --------------------------------------------------------------- render
\* One render of TestTake with the (primed) state, followed by its effects:
\* the four ref effects, the new handleFinish closure, the timer effect
\* (cleanup of the previous interval, then a new one when
\* timeRemaining > 0 && !finished) when one of its dependencies changed.
\* variant of TimerCondition without the !finished test
TimerConditionIgnoresFinished(time, fin) == time > 0

TimerCondition(time, fin) == time > 0 /\ ~fin

CommitRender ==
  /\ questionsRef' = questions'
  /\ answersRef' = answers'
  /\ initialTimeRef' = initialTime'
  /\ timeRemainingRef' = timeRemaining'
  /\ closure' = [finished |-> finished', playlistId |-> playlistId']
  /\ rendered' = [test |-> test',
                  results |-> finished' /\ testResults' # <<>>,
                  questions |-> questions']
  /\ rTime' = timeRemaining'
  /\ IF timeRemaining' # rTime \/ closure' # closure
     THEN /\ timers' = (timers - (IF timerSet THEN 1 ELSE 0))
                       + (IF TimerCondition(timeRemaining', finished') THEN 1 ELSE 0)
          /\ timerSet' = TimerCondition(timeRemaining', finished')
     ELSE UNCHANGED <<timers, timerSet>>
  /\ dirty' = FALSE

\* the queued render
Commit ==
  /\ page = "take"
  /\ dirty
  /\ UNCHANGED <<dbVars, playlistVars, viewVars, page, id, sessions, loadPc, stateVars, recorders, ghostVars>>
  /\ CommitRender

\* ------------------------------------------------------- mount / unmount
FreshSession ==
  /\ test' = FALSE /\ questions' = <<>> /\ timeRemaining' = 0
  /\ initialTime' = 0 /\ error' = FALSE /\ finished' = FALSE
  /\ testResults' = <<>>
  /\ questionsRef' = <<>> /\ initialTimeRef' = 0 /\ timeRemainingRef' = 0
  /\ dirty' = FALSE /\ rTime' = 0 /\ timerSet' = FALSE
  /\ rendered' = [test |-> FALSE, results |-> FALSE, questions |-> <<>>]
  /\ dispatched' = 0 /\ recStarted' = 0 /\ finishedBy' = Null
  /\ ticks' = 0 /\ scored' = <<>> /\ recordFailed' = FALSE

\* TestTake is mounted for /test/:id/take with location.state =
\* { answers: navAnswers, playlistId: navPlaylistId }: the initial render and
\* the mount effect (loadTest() started, setAnswers, setPlaylistId) with the
\* render those two updates cause.  A missing answers / playlistId entry is
\* NoAnswers / Null.
MountTake(testId, navAnswers, navPlaylistId) ==
  /\ page # "take"
  /\ sessions < MaxSessions
  /\ recorders = <<>>   \* the requests of the previous session have ended
  /\ page' = "take"
  /\ id' = testId
  /\ sessions' = sessions + 1
  /\ loadPc' = "fetchTest"
  /\ FreshSession
  /\ answers' = navAnswers
  /\ answersRef' = navAnswers
  /\ playlistId' = navPlaylistId
  /\ closure' = [finished |-> FALSE, playlistId |-> navPlaylistId]
  /\ opened' = opened \cup {testId}
  /\ UNCHANGED <<timers, recorders, lateTick, finishRan, recorded, left,
                 notified>>

\* TestTake mounted from a page other than PlaylistView
Mount(testId, navAnswers, navPlaylistId) ==
  /\ page # "playlist"
  /\ MountTake(testId, navAnswers, navPlaylistId)
  /\ UNCHANGED <<dbVars, playlistVars, viewVars>>

\* variant of Unmount that records the unfinished test on the way out
UnmountFlushing(target) ==
  /\ page' = target
  /\ id' = Null
  /\ loadPc' = "none"
  /\ FreshSession
  /\ answers' = NoAnswers
  /\ answersRef' = NoAnswers
  /\ playlistId' = Null
  /\ closure' = [finished |-> FALSE, playlistId |-> Null]
  /\ timers' = timers - (IF timerSet THEN 1 ELSE 0)
  /\ recorders' = IF ~finished /\ playlistId # Null /\ role = "student"
                  THEN Append(recorders, [by |-> "TestTake", inst |-> sessions,
                                          pc |-> "read", test |-> id, upd |-> <<>>])
                  ELSE recorders
  /\ UNCHANGED <<dbVars, playlistVars, viewVars, sessions, lateTick, finishRan,
                 opened, recorded, left, notified>>

\* navigate(target) away from TestTake: the component is unmounted, the
\* timer effect's cleanup runs and the component state is discarded (what
\* an unfinished session held is kept in left, for observation only);
\* requests already issued by handleFinish go on.
Unmount(target) ==
  /\ page' = target
  /\ id' = Null
  /\ loadPc' = "none"
  /\ FreshSession
  /\ answers' = NoAnswers
  /\ answersRef' = NoAnswers
  /\ playlistId' = Null
  /\ closure' = [finished |-> FALSE, playlistId |-> Null]
  /\ timers' = timers - (IF timerSet THEN 1 ELSE 0)
  /\ left' = IF test /\ ~finished
             THEN <<[id |-> id, answers |-> answers,
                     timeRemaining |-> timeRemaining]>>
             ELSE <<>>
  /\ UNCHANGED <<dbVars, playlistVars, viewVars, sessions, recorders, lateTick,
                 finishRan, opened, recorded, notified>>

\* the Back button of the navigation bar (all three screens of a loaded
\* test): the dashboard for a student, the test view for a teacher
ClickNavBack ==
  /\ page = "take"
  /\ rendered.test
  /\ Unmount(IF role = "student" THEN "dashboard" ELSE "view")

\* handleBack: the Back button next to Finish on the questions screen, which
\* is rendered only for a test without file_url / file_content
HandleBack ==
  /\ page = "take"
  /\ rendered.test /\ ~rendered.results /\ ~HasFile[id]
  /\ Unmount(IF HasFile[id] THEN "document" ELSE "view")

\* -------------------------------------------------------------- loadTest
\* the tests row arrives: setTest, setTimeRemaining, setInitialTime
LoadTestOk ==
  /\ page = "take" /\ loadPc = "fetchTest"
  /\ test' = TRUE
  /\ timeRemaining' = TotalSeconds(dbTimeMinutes[id])
  /\ initialTime' = TotalSeconds(dbTimeMinutes[id])
  /\ loadPc' = "fetchQuestions"
  /\ dirty' = TRUE
  /\ left' = <<>>
  /\ UNCHANGED <<dbVars, playlistVars, viewVars, page, id, sessions, questions,
                 answers, error, finished, testResults, playlistId, refVars,
                 closure, rendered, rTime, timers, timerSet, recorders,
                 ghostKept>>

\* variant of LoadTestFail that starts loadTest again
LoadTestFailRetrying ==
  /\ page = "take" /\ loadPc = "fetchTest"
  /\ error' = TRUE
  /\ loadPc' = "fetchTest"
  /\ dirty' = TRUE
  /\ UNCHANGED <<dbVars, playlistVars, viewVars, page, id, sessions, test, questions, answers,
                 timeRemaining, initialTime, finished, testResults, playlistId,
                 refVars, closure, rendered, rTime, timers, timerSet,
                 recorders, ghostVars>>

\* fetchError: setError and return
LoadTestFail ==
  /\ page = "take" /\ loadPc = "fetchTest"
  /\ error' = TRUE
  /\ loadPc' = "failed"
  /\ dirty' = TRUE
  /\ UNCHANGED <<dbVars, playlistVars, viewVars, page, id, sessions, test, questions, answers,
                 timeRemaining, initialTime, finished, testResults, playlistId,
                 refVars, closure, rendered, rTime, timers, timerSet,
                 recorders, ghostVars>>

\* the request for the tests row rejects: loadTest has no try / catch, the
\* promise it returned is dropped and no state is set
LoadTestReject ==
  /\ page = "take" /\ loadPc = "fetchTest"
  /\ loadPc' = "failed"
  /\ UNCHANGED <<dbVars, playlistVars, viewVars, page, id, sessions, stateVars, refVars, renderVars,
                 recorders, ghostVars>>

\* the test_questions and test_question_variants requests resolve:
\* questionsOk = FALSE is questionsData null, variantsOk = FALSE is
\* variantsData null (every question gets an empty variant list)
LoadQuestions(questionsOk, variantsOk) ==
  /\ page = "take" /\ loadPc = "fetchQuestions"
  /\ loadPc' = "done"
  /\ IF questionsOk /\ Len(dbQuestions[id]) > 0
     THEN /\ questions' = [i \in 1..Len(dbQuestions[id]) |->
                             IF variantsOk THEN dbQuestions[id][i] ELSE <<>>]
          /\ dirty' = TRUE
     ELSE UNCHANGED <<questions, dirty>>
  /\ UNCHANGED <<dbVars, playlistVars, viewVars, page, id, sessions, test, answers, timeRemaining,
                 initialTime, error, finished, testResults, playlistId, refVars,
                 closure, rendered, rTime, timers, timerSet, recorders, ghostVars>>

\* ----------------------------------------------------------------- timer
\* The interval callback: setTimeRemaining((prev) => ...), whose updater
\* calls the handleFinish the effect captured when prev <= 1.
Tick ==
  /\ timers > 0
  /\ ~dirty
  /\ ticks' = ticks + 1
  /\ lateTick' = (lateTick \/ page # "take" \/ finished)
  /\ IF page = "take"
     THEN /\ dirty' = TRUE
          /\ IF timeRemaining <= 1
             THEN /\ HandleFinish(closure, "timer")
                  /\ timeRemaining' = 0
             ELSE /\ timeRemaining' = timeRemaining - 1
                  /\ UNCHANGED <<finished, testResults, recorders, dispatched,
                                 recStarted, finishedBy, finishRan, scored>>
     ELSE UNCHANGED <<dirty, timeRemaining, finished, testResults, recorders,
                      dispatched, recStarted, finishedBy, finishRan, scored>>
  /\ UNCHANGED <<dbVars, playlistVars, viewVars, page, id, sessions, loadPc, test, questions, answers,
                 initialTime, error, playlistId, refVars, closure, rendered,
                 rTime, timers, timerSet, opened, recordFailed, recorded, left,
                 notified>>

\* ---------------------------------------------------------------- clicks
\* a radio button of the rendered question list: handleAnswerChange
HandleAnswerChange(questionIndex, variantIndex) ==
  /\ page = "take"
  /\ rendered.test /\ ~rendered.results
  /\ questionIndex < Len(rendered.questions)
  /\ variantIndex < Len(rendered.questions[questionIndex + 1])
  /\ answers' = [p \in DOMAIN answers \cup {questionIndex} |->
                   IF p = questionIndex THEN variantIndex ELSE answers[p]]
  /\ UNCHANGED <<dbVars, playlistVars, viewVars, page, id, sessions, loadPc, test, questions,
                 timeRemaining, initialTime, error, finished, testResults,
                 playlistId, recorders, ghostVars>>
  /\ CommitRender

\* the Finish button: on the document screen it exists only when questions
\* are rendered, on the questions screen always
ClickFinish ==
  /\ page = "take"
  /\ rendered.test /\ ~rendered.results
  /\ HasFile[id] => Len(rendered.questions) > 0
  /\ HandleFinish(closure, "click")
  /\ UNCHANGED <<dbVars, playlistVars, viewVars, page, id, sessions, loadPc, test, questions, answers,
                 timeRemaining, initialTime, error, playlistId, ticks, lateTick,
                 opened, recordFailed, recorded, left, notified>>
  /\ CommitRender

\* ------------------------------------------------------ progress recording
\* The rest of handleFinish after the result is set: the select on
\* playlist_student_progress, then the update or the insert.  A request
\* ends "ok", "error" (the client resolves with data null and an error
\* object, which the code ignores) or "reject" (the await throws into catch).
Outcomes == {"ok", "error", "reject"}

RemoveAt(s, i) == [j \in 1..(Len(s) - 1) |-> IF j < i THEN s[j] ELSE s[j + 1]]

Includes(list, x) == \E j \in 1..Len(list) : list[j] = x

\* p.completed_test_ids?.includes(id) on a progress row (<<>>: no row)
IsCompletedIn(row, itemId) == row # <<>> /\ Includes(row[1].completed, itemId)

\* `for (const cp of coursePlaylists)` of handleCompleteLesson goes on to
\* the second playlist holding the lesson
Continues(rec, aborted) == rec.by = "LessonView" /\ ~aborted /\ dbOther # Null

\* What follows the last request of a recording.  aborted: the handler
\* left through return or catch; wrote: it issued the update / insert.
\*  - PlaylistView.markTestCompleted calls loadPlaylist() after its write;
\*  - LessonView.handleCompleteLesson dispatches 'lessonCompleted', on which
\*    a mounted PlaylistView that is not a test playlist calls
\*    loadPlaylist(), reloads the completion status and, in finally, resets
\*    completing;
\*  - TestTake.handleFinish does nothing more.
\* Set-state calls of a component that has been unmounted are dropped.
\* row, other: the progress rows that loadCompletionStatus reads.
AfterRecording(rec, wrote, aborted, row, other) ==
  /\ playlistView' =
       IF /\ page = "playlist"
          /\ ~aborted
          /\ \/ rec.by = "PlaylistView" /\ wrote /\ rec.inst = views
             \/ rec.by = "LessonView" /\ ~playlistView.isTestPlaylist
       THEN [playlistView EXCEPT !.pc = "loading", !.error = FALSE]
       ELSE playlistView
  /\ lessonView' =
       IF rec.by = "LessonView" /\ page = "lesson" /\ rec.inst = lessonViews
       THEN [lessonView EXCEPT
               !.completing = FALSE,
               !.canComplete = IF aborted THEN @
                               ELSE ~(/\ IsCompletedIn(row, rec.test)
                                      /\ other # Null
                                           => IsCompletedIn(other, rec.test))]
       ELSE lessonView
  /\ notified' = IF rec.by = "LessonView" /\ ~aborted
                 THEN notified \cup {rec.test} ELSE notified

\* handleCompleteLesson: the select on course_playlists resolves or rejects
RecordPlaylists(i, outcome) ==
  /\ i \in 1..Len(recorders)
  /\ recorders[i].pc = "playlists"
  /\ LET rec == recorders[i]
         coursePlaylists ==
           IF outcome = "ok" /\ \E k \in 1..Len(CoursePlaylists) :
                                   CoursePlaylists[k].id = rec.test
           THEN <<"p1">> ELSE <<>>
     IN IF coursePlaylists = <<>>
        THEN /\ recorders' = RemoveAt(recorders, i)
             /\ AfterRecording(rec, FALSE, TRUE, dbRow, dbOther)
        ELSE /\ recorders' = [recorders EXCEPT ![i].pc = "read"]
             /\ UNCHANGED <<playlistView, lessonView, notified>>
  /\ recordFailed' = (recordFailed \/ outcome # "ok")
  /\ UNCHANGED <<dbVars, dbPlaylist, form, loaded, edits, views, lessonViews,
                 click, page, id, sessions, loadPc, stateVars, refVars,
                 renderVars, dispatched, recStarted, finishedBy, ticks,
                 lateTick, finishRan, opened, scored, recorded, left>>

\* variant of RecordRead that appends the item without looking for it
RecordReadAppending(i, outcome) ==
  /\ i \in 1..Len(recorders)
  /\ recorders[i].pc = "read"
  /\ LET rec == recorders[i]
         existingProgress == IF outcome = "ok" THEN dbRow ELSE <<>>
         completedTestIds == IF existingProgress # <<>>
                             THEN existingProgress[1].completed ELSE <<>>
     IN IF outcome = "reject"
        THEN /\ recorders' = RemoveAt(recorders, i)
             /\ AfterRecording(rec, FALSE, TRUE, dbRow, dbOther)
        ELSE /\ recorders' = [recorders EXCEPT ![i] =
                 [rec EXCEPT
                    !.pc = IF existingProgress # <<>> THEN "update" ELSE "insert",
                    !.upd = Append(completedTestIds, rec.test)]]
             /\ UNCHANGED <<playlistView, lessonView, notified>>
  /\ recordFailed' = (recordFailed \/ outcome # "ok")
  /\ UNCHANGED <<dbVars, dbPlaylist, form, loaded, edits, views, lessonViews,
                 click, page, id, sessions, loadPc, stateVars, refVars,
                 renderVars, dispatched, recStarted, finishedBy, ticks,
                 lateTick, finishRan, opened, scored, recorded, left>>

\* .select('*')...maybeSingle() resolves or rejects
RecordRead(i, outcome) ==
  /\ i \in 1..Len(recorders)
  /\ recorders[i].pc = "read"
  /\ LET rec == recorders[i]
         testId == rec.test
         existingProgress == IF outcome = "ok" THEN dbRow ELSE <<>>
         completedTestIds == IF existingProgress # <<>>
                             THEN existingProgress[1].completed ELSE <<>>
         updatedCompleted == IF Includes(completedTestIds, testId)
                             THEN completedTestIds
                             ELSE Append(completedTestIds, testId)
     IN IF outcome = "reject" \/ Includes(completedTestIds, testId)
        THEN IF Continues(rec, outcome = "reject")
             THEN /\ recorders' = [recorders EXCEPT ![i].pc = "readOther"]
                  /\ UNCHANGED <<playlistView, lessonView, notified>>
             ELSE /\ recorders' = RemoveAt(recorders, i)
                  /\ AfterRecording(rec, FALSE, outcome = "reject", dbRow,
                                    dbOther)
        ELSE /\ recorders' = [recorders EXCEPT ![i] =
                 [rec EXCEPT
                    !.pc = IF existingProgress # <<>> THEN "update" ELSE "insert",
                    !.upd = updatedCompleted]]
             /\ UNCHANGED <<playlistView, lessonView, notified>>
  /\ recorded' = IF outcome = "ok" /\ dbRow # <<>>
                       /\ Includes(dbRow[1].completed, recorders[i].test)
                  THEN recorded \cup {recorders[i].test} ELSE recorded
  /\ recordFailed' = (recordFailed \/ outcome # "ok")
  /\ UNCHANGED <<dbVars, dbPlaylist, form, loaded, edits, views, lessonViews,
                 click, page, id, sessions, loadPc, stateVars, refVars,
                 renderVars, dispatched, recStarted, finishedBy, ticks,
                 lateTick, finishRan, opened, scored, left>>

\* variant of RecordWrite whose failure takes the result back
RecordWriteRollback(i, outcome) ==
  /\ i \in 1..Len(recorders)
  /\ recorders[i].pc \in {"update", "insert"}
  /\ recorders' = RemoveAt(recorders, i)
  /\ IF outcome = "ok" /\ ((recorders[i].pc = "update") <=> (dbRow # <<>>))
     THEN /\ dbRow' = <<[completed |-> recorders[i].upd]>>
          /\ recorded' = recorded \cup {recorders[i].test}
     ELSE UNCHANGED <<dbRow, recorded>>
  /\ AfterRecording(recorders[i], TRUE, outcome = "reject", dbRow', dbOther)
  /\ recordFailed' = (recordFailed \/ outcome # "ok")
  /\ IF outcome # "ok" /\ page = "take"
     THEN finished' = FALSE /\ testResults' = <<>> /\ dirty' = TRUE
     ELSE UNCHANGED <<finished, testResults, dirty>>
  /\ UNCHANGED <<role, dbQuestions, dbTimeMinutes, dbOther, dbPlaylist, form, loaded,
                 edits, views, lessonViews, click, page, id, sessions, loadPc,
                 test, questions, answers, timeRemaining, initialTime, error,
                 playlistId, refVars, closure, rendered, rTime, timers, timerSet,
                 dispatched, recStarted, finishedBy, ticks,
                 lateTick, finishRan, opened, scored, left>>

\* variant of RecordWrite that updates even when it found no row
RecordWriteUpdating(i, outcome) ==
  /\ i \in 1..Len(recorders)
  /\ recorders[i].pc \in {"update", "insert"}
  /\ recorders' = RemoveAt(recorders, i)
  /\ IF outcome = "ok" /\ dbRow # <<>>
     THEN /\ dbRow' = <<[completed |-> recorders[i].upd]>>
          /\ recorded' = recorded \cup {recorders[i].test}
     ELSE UNCHANGED <<dbRow, recorded>>
  /\ AfterRecording(recorders[i], TRUE, outcome = "reject", dbRow', dbOther)
  /\ recordFailed' = (recordFailed \/ outcome # "ok")
  /\ UNCHANGED <<role, dbQuestions, dbTimeMinutes, dbOther, dbPlaylist, form, loaded,
                 edits, views, lessonViews, click, page, id, sessions, loadPc,
                 stateVars, refVars, renderVars, dispatched, recStarted,
                 finishedBy, ticks, lateTick, finishRan, opened, scored, left>>

\* .update({completed_test_ids}).eq('id', existingProgress.id) or .insert(...)
\* resolves or rejects; UNIQUE(playlist_id, student_id) refuses a second row
RecordWrite(i, outcome) ==
  /\ i \in 1..Len(recorders)
  /\ recorders[i].pc \in {"update", "insert"}
  /\ IF outcome = "ok" /\ ((recorders[i].pc = "update") <=> (dbRow # <<>>))
     THEN /\ dbRow' = <<[completed |-> recorders[i].upd]>>
          /\ recorded' = recorded \cup {recorders[i].test}
     ELSE UNCHANGED <<dbRow, recorded>>
  /\ IF Continues(recorders[i], outcome = "reject")
     THEN /\ recorders' = [recorders EXCEPT ![i].pc = "readOther", ![i].upd = <<>>]
          /\ UNCHANGED <<playlistView, lessonView, notified>>
     ELSE /\ recorders' = RemoveAt(recorders, i)
          /\ AfterRecording(recorders[i], TRUE, outcome = "reject", dbRow',
                            dbOther)
  /\ recordFailed' = (recordFailed \/ outcome # "ok")
  /\ UNCHANGED <<role, dbQuestions, dbTimeMinutes, dbOther, dbPlaylist, form, loaded,
                 edits, views, lessonViews, click, page, id, sessions, loadPc,
                 stateVars, refVars, renderVars, dispatched, recStarted,
                 finishedBy, ticks, lateTick, finishRan, opened, scored, left>>

\* second iteration of the loop of handleCompleteLesson: the select on
\* the row of (p2, student)
RecordReadOther(i, outcome) ==
  /\ i \in 1..Len(recorders)
  /\ recorders[i].pc = "readOther"
  /\ LET rec == recorders[i]
         existingProgress == IF outcome = "ok" THEN dbOther ELSE <<>>
         completedCourseIds == IF existingProgress # <<>>
                               THEN existingProgress[1].completed ELSE <<>>
     IN IF outcome = "reject" \/ Includes(completedCourseIds, rec.test)
        THEN /\ recorders' = RemoveAt(recorders, i)
             /\ AfterRecording(rec, FALSE, outcome = "reject", dbRow, dbOther)
        ELSE /\ recorders' = [recorders EXCEPT ![i] =
                 [rec EXCEPT
                    !.pc = IF existingProgress # <<>> THEN "updateOther"
                           ELSE "insertOther",
                    !.upd = Append(completedCourseIds, rec.test)]]
             /\ UNCHANGED <<playlistView, lessonView, notified>>
  /\ recordFailed' = (recordFailed \/ outcome # "ok")
  /\ UNCHANGED <<dbVars, dbPlaylist, form, loaded, edits, views, lessonViews,
                 click, page, id, sessions, loadPc, stateVars, refVars,
                 renderVars, dispatched, recStarted, finishedBy, ticks,
                 lateTick, finishRan, opened, scored, recorded, left>>

\* second iteration: the update or insert of the row of (p2, student)
RecordWriteOther(i, outcome) ==
  /\ i \in 1..Len(recorders)
  /\ recorders[i].pc \in {"updateOther", "insertOther"}
  /\ recorders' = RemoveAt(recorders, i)
  /\ dbOther' = IF outcome = "ok"
                   /\ ((recorders[i].pc = "updateOther") <=> (dbOther # <<>>))
                THEN <<[completed |-> recorders[i].upd]>> ELSE dbOther
  /\ AfterRecording(recorders[i], TRUE, outcome = "reject", dbRow, dbOther')
  /\ recordFailed' = (recordFailed \/ outcome # "ok")
  /\ UNCHANGED <<role, dbQuestions, dbTimeMinutes, dbRow, dbPlaylist, form,
                 loaded, edits, views, lessonViews, click, page, id, sessions,
                 loadPc, stateVars, refVars, renderVars, dispatched, recStarted,
                 finishedBy, ticks, lateTick, finishRan, opened, scored,
                 recorded, left>>

\* ------------------------------------------------------------- playlists
\* .order('order_index', { ascending: true }): the orders in which the
\* rows can be returned (rows with equal order_index in any order)
SortedRows(rows) ==
  LET n == Len(rows)
      perms == {f \in [1..n -> 1..n] : \A i, j \in 1..n : i # j => f[i] # f[j]}
  IN {[k \in 1..n |-> rows[f[k]]] : f \in
        {g \in perms : \A k \in 1..(n - 1) :
                          rows[g[k]].order_index <= rows[g[k + 1]].order_index}}

\* playlist p1 of Spec: test playlist [t1, t2], sequential
FixturePlaylist ==
  [access_mode |-> "sequential", kind |-> "tests",
   items |-> <<Row("t1", 0), Row("t2", 1)>>]

\* ------------------------------------------- PlaylistForm / LessonPlaylistForm
FormClosed == [open |-> FALSE, selectedTestIds |-> <<>>, testOrders |-> <<>>]

\* selectedTestIds.filter(id => id !== testId)
RECURSIVE Without(_, _)
Without(list, x) ==
  IF list = <<>> THEN <<>>
  ELSE IF Head(list) = x THEN Without(Tail(list), x)
  ELSE <<Head(list)>> \o Without(Tail(list), x)

\* testOrders is kept as the list of orders of selectedTestIds, position by
\* position
OrderOf(f, testId) ==
  LET k == CHOOSE j \in 1..Len(f.selectedTestIds) : f.selectedTestIds[j] = testId
  IN f.testOrders[k]

\* the form is opened for p1 (edit mode): its loadPlaylist fills
\* selectedTestIds and testOrders from the stored rows (for a lesson
\* playlist the order of a course is its index in the returned rows)
FormOpen ==
  /\ ~form.open
  /\ page = "dashboard"
  /\ edits < MaxEdits
  /\ edits' = edits + 1
  /\ \E rows \in SortedRows(dbPlaylist.items) :
       form' = [open |-> TRUE,
                selectedTestIds |-> [k \in 1..Len(rows) |-> rows[k].id],
                testOrders |-> [k \in 1..Len(rows) |->
                                  IF dbPlaylist.kind = "tests"
                                  THEN rows[k].order_index ELSE k - 1]]
  /\ UNCHANGED <<dbVars, dbPlaylist, playlistView, loaded, views, page, id,
                 sessions, loadPc, stateVars, refVars, renderVars, recorders,
                 ghostVars,
                 viewVars>>

\* toggleTestSelection (toggleCourseSelection); its removal branch is also
\* removeTest (removeCourse)
ToggleTestSelection(testId) ==
  /\ form.open
  /\ IF Includes(form.selectedTestIds, testId)
     THEN form' = [form EXCEPT
            !.selectedTestIds = Without(form.selectedTestIds, testId),
            !.testOrders = [k \in 1..(Len(form.selectedTestIds) - 1) |->
                              OrderOf(form, Without(form.selectedTestIds, testId)[k])]]
     ELSE LET newOrder == Len(form.selectedTestIds)
          IN form' = [form EXCEPT
                 !.selectedTestIds = Append(form.selectedTestIds, testId),
                 !.testOrders = Append(form.testOrders, newOrder)]
  /\ UNCHANGED <<dbVars, dbPlaylist, playlistView, loaded, edits, views, page,
                 id, sessions, loadPc, stateVars, refVars, renderVars, recorders,
                 ghostVars,
                 viewVars>>

\* handleFinalSubmit with every request succeeding: the rows of p1 are
\* deleted and the selected ones inserted, then navigate('/teacher/dashboard')
HandleFinalSubmit ==
  /\ form.open
  /\ Len(form.selectedTestIds) > 0
  /\ dbPlaylist' = [dbPlaylist EXCEPT !.items =
       [k \in 1..Len(form.selectedTestIds) |->
          Row(form.selectedTestIds[k],
              IF dbPlaylist.kind = "tests" THEN form.testOrders[k] ELSE 0)]]
  /\ form' = FormClosed
  /\ UNCHANGED <<dbVars, playlistView, loaded, edits, views, page, id, sessions,
                 loadPc, stateVars, refVars, renderVars, recorders, ghostVars,
                 viewVars>>

\* ------------------------------------------------------------ LessonView
LessonUnmounted == [id |-> Null, completing |-> FALSE, canComplete |-> FALSE]

\* ---------------------------------------------------------- PlaylistView
ViewUnmounted ==
  [pc |-> "unmounted", playlist |-> FALSE, isTestPlaylist |-> FALSE,
   tests |-> <<>>, courses |-> <<>>, error |-> FALSE]

\* PlaylistView is mounted for p1; its effect starts loadPlaylist.  The
\* playlist is not being edited while it is viewed.
MountPlaylist ==
  /\ page = "dashboard"
  /\ ~form.open
  /\ views < MaxViews
  /\ views' = views + 1
  /\ page' = "playlist"
  /\ playlistView' = [ViewUnmounted EXCEPT !.pc = "loading"]
  /\ UNCHANGED <<dbVars, dbPlaylist, form, loaded, edits, id, sessions,
                 loadPc, stateVars, refVars, renderVars, recorders, ghostVars,
                 viewVars>>

\* the Back button of PlaylistView
PlaylistBack ==
  /\ page = "playlist"
  /\ page' = "dashboard"
  /\ playlistView' = ViewUnmounted
  /\ loaded' = <<>>
  /\ UNCHANGED <<dbVars, dbPlaylist, form, edits, views, id, sessions,
                 loadPc, stateVars, refVars, renderVars, recorders, ghostVars,
                 viewVars>>

\* variant of IsAvailableTest that gates every viewer of a sequential playlist
IsAvailableTestGatingAll(playlistTests, k, completedTestIds, r, accessMode) ==
  IF accessMode = "sequential"
  THEN IF playlistTests[k].order_index = 0
       THEN TRUE
       ELSE Includes(completedTestIds,
                     playlistTests[playlistTests[k].order_index].id)
  ELSE TRUE

\* isAvailable of the test of row k (1-based); previousTest is
\* playlistTests[pt.order_index - 1] of the 0-based array
IsAvailableTest(playlistTests, k, completedTestIds, r, accessMode) ==
  IF r = "student" /\ accessMode = "sequential"
  THEN IF playlistTests[k].order_index = 0
       THEN TRUE
       ELSE Includes(completedTestIds,
                     playlistTests[playlistTests[k].order_index].id)
  ELSE TRUE

\* previousTest is undefined, so previousTest.test_id raises a TypeError
RaisesTest(playlistTests, k, r, accessMode) ==
  /\ r = "student" /\ accessMode = "sequential"
  /\ playlistTests[k].order_index # 0
  /\ playlistTests[k].order_index \notin 1..Len(playlistTests)

\* isAvailable of the course at index k - 1; previousCourse is
\* coursePlaylists[index - 1]
IsAvailableCourse(coursePlaylists, k, completedCourseIds, r, accessMode) ==
  IF r = "student" /\ accessMode = "sequential"
  THEN IF k - 1 = 0
       THEN TRUE
       ELSE Includes(completedCourseIds, coursePlaylists[k - 1].id)
  ELSE TRUE

\* .filter(t => t !== null) of the mapped rows: the rows whose details came
RECURSIVE WithDetails(_, _, _)
WithDetails(entries, rows, details) ==
  IF rows = <<>> THEN <<>>
  ELSE (IF Head(rows).id \in details THEN <<Head(entries)>> ELSE <<>>)
       \o WithDetails(Tail(entries), Tail(rows), details)

\* testsWithStatus
TestsWithStatus(playlistTests, details, completedTestIds, r, accessMode) ==
  WithDetails(
    [k \in 1..Len(playlistTests) |->
       IF playlistTests[k].id \in details
       THEN [id |-> playlistTests[k].id,
             order_index |-> playlistTests[k].order_index,
             is_available |-> IsAvailableTest(playlistTests, k, completedTestIds,
                                              r, accessMode),
             is_completed |-> r = "student"
                              /\ Includes(completedTestIds, playlistTests[k].id)]
       ELSE Null],
    playlistTests, details)

\* coursesWithOrder
CoursesWithOrder(coursePlaylists, details, completedCourseIds, r, accessMode) ==
  WithDetails(
    [k \in 1..Len(coursePlaylists) |->
       IF coursePlaylists[k].id \in details
       THEN [id |-> coursePlaylists[k].id,
             order_index |-> k - 1,
             is_available |-> IsAvailableCourse(coursePlaylists, k,
                                                completedCourseIds, r, accessMode),
             is_completed |-> r = "student"
                              /\ Includes(completedCourseIds, coursePlaylists[k].id)]
       ELSE Null],
    coursePlaylists, details)

\* loadPlaylist from its three parallel requests to its last set-state.
\* playlistOk: the playlists row came; detailsOk / details: the request for
\* tests / courses succeeded and returned the rows of these ids; progress:
\* outcome of the select on playlist_student_progress (students only).
\* The playlist is not edited while a view loads it.
LoadPlaylist(playlistOk, detailsOk, details, progress) ==
  /\ page = "playlist"
  /\ playlistView.pc = "loading"
  /\ \E playlistTests \in SortedRows(PlaylistTests) :
       LET coursePlaylists == CoursePlaylists
           isTests == Len(playlistTests) > 0
           isLessons == ~isTests /\ Len(coursePlaylists) > 0
           rows == IF isTests THEN playlistTests ELSE coursePlaylists
           completed == IF role = "student" /\ progress = "ok" /\ dbRow # <<>>
                        THEN dbRow[1].completed ELSE <<>>
           rejected == role = "student" /\ progress = "reject"
           raised == /\ isTests
                     /\ \E k \in 1..Len(playlistTests) :
                          /\ playlistTests[k].id \in details
                          /\ RaisesTest(playlistTests, k, role,
                                        dbPlaylist.access_mode)
           failed == ~playlistOk \/ (rows # <<>> /\ (~detailsOk \/ rejected))
       IN /\ playlistView' =
               IF ~playlistOk
               THEN [playlistView EXCEPT !.pc = "done", !.error = TRUE]
               ELSE IF rows # <<>> /\ (~detailsOk \/ rejected \/ raised)
               THEN [playlistView EXCEPT !.pc = "done", !.playlist = TRUE,
                                         !.isTestPlaylist = isTests,
                                         !.error = TRUE]
               ELSE IF isTests
               THEN [playlistView EXCEPT !.pc = "done", !.playlist = TRUE,
                       !.isTestPlaylist = TRUE,
                       !.tests = TestsWithStatus(playlistTests, details, completed,
                                                 role, dbPlaylist.access_mode)]
               ELSE IF isLessons
               THEN [playlistView EXCEPT !.pc = "done", !.playlist = TRUE,
                       !.isTestPlaylist = FALSE,
                       !.courses = CoursesWithOrder(coursePlaylists, details,
                                      completed, role, dbPlaylist.access_mode)]
               ELSE [playlistView EXCEPT !.pc = "done", !.playlist = TRUE,
                       !.isTestPlaylist = TRUE, !.tests = <<>>, !.courses = <<>>]
          /\ loaded' = <<[rows |-> rows, details |-> details,
                          completed |-> completed, failed |-> failed,
                          stored |-> IF dbRow # <<>> THEN dbRow[1].completed
                                     ELSE <<>>]>>
  /\ UNCHANGED <<dbVars, dbPlaylist, form, edits, views, page, id, sessions,
                 loadPc, stateVars, refVars, renderVars, recorders, ghostVars,
                 viewVars>>

\* 'testCompleted' reaches the listener of a mounted PlaylistView showing a
\* test playlist: markTestCompleted(event.detail.testId) starts
HandleTestCompleted(testId) ==
  /\ page = "playlist"
  /\ playlistView.isTestPlaylist
  /\ recorders' = Append(recorders, [by |-> "PlaylistView", inst |-> views,
                                     pc |-> "read", test |-> testId, upd |-> <<>>])
  /\ UNCHANGED <<dbVars, playlistVars, viewVars, page, id, sessions, loadPc,
                 stateVars, refVars, renderVars, ghostVars>>

\* the lists of PlaylistView are rendered (after a first load that ended
\* without error; they stay rendered while a reload is under way)
ListRendered == page = "playlist" /\ playlistView.playlist /\ ~playlistView.error

\* handleTestClick on the j-th rendered test up to its first await (student)
\* or to its navigate (teacher)
HandleTestClick(j) ==
  /\ ListRendered /\ playlistView.isTestPlaylist
  /\ j \in 1..Len(playlistView.tests)
  /\ playlistView.tests[j].is_available
  /\ click = <<>>
  /\ IF role = "student"
     THEN /\ click' = <<[pc |-> "read", test |-> playlistView.tests[j].id]>>
          /\ UNCHANGED <<page, playlistView, loaded>>
     ELSE /\ page' = "view"
          /\ playlistView' = ViewUnmounted
          /\ loaded' = <<>>
          /\ UNCHANGED click
  /\ UNCHANGED <<dbVars, dbPlaylist, form, edits, views, lessonView, lessonViews,
                 id, sessions, loadPc, stateVars, refVars, renderVars, recorders,
                 ghostVars>>

\* handleTestClick: the select on playlist_student_progress resolves or rejects
ClickRead(outcome) ==
  /\ click # <<>>
  /\ click[1].pc = "read"
  /\ click' = IF outcome = "reject" THEN <<>>
              ELSE <<[click[1] EXCEPT !.pc = IF outcome = "ok" /\ dbRow # <<>>
                                             THEN "update" ELSE "insert"]>>
  /\ UNCHANGED <<dbVars, playlistVars, lessonView, lessonViews, page, id,
                 sessions, loadPc, stateVars, refVars, renderVars, recorders,
                 ghostVars>>

\* variant of ClickWrite whose write stores a whole new row
ClickWriteReplacing(outcome) ==
  /\ click # <<>>
  /\ click[1].pc \in {"update", "insert"}
  /\ click' = <<>>
  /\ IF outcome = "reject"
     THEN UNCHANGED <<dbRow, playlistView, loaded, page, id, sessions, loadPc,
                      stateVars, refVars, renderVars, recorders, ghostVars>>
     ELSE /\ dbRow' = IF outcome = "ok" THEN <<[completed |-> <<>>]>> ELSE dbRow
          /\ MountTake(click[1].test, NoAnswers, Null)
          /\ playlistView' = ViewUnmounted
          /\ loaded' = <<>>
  /\ UNCHANGED <<role, dbQuestions, dbTimeMinutes, dbOther, dbPlaylist, form, edits, views,
                 lessonView, lessonViews>>

\* handleTestClick: the update of current_test_id or the insert of a row
\* with current_test_id (completed_test_ids takes its default '{}') resolves
\* and the handler navigates to /test/:id/take, without location state; or
\* the request rejects and the catch logs
ClickWrite(outcome) ==
  /\ click # <<>>
  /\ click[1].pc \in {"update", "insert"}
  /\ click' = <<>>
  /\ IF outcome = "reject"
     THEN UNCHANGED <<dbRow, playlistView, loaded, page, id, sessions, loadPc,
                      stateVars, refVars, renderVars, recorders, ghostVars>>
     ELSE /\ dbRow' = IF outcome = "ok" /\ click[1].pc = "insert" /\ dbRow = <<>>
                      THEN <<[completed |-> <<>>]>> ELSE dbRow
          /\ MountTake(click[1].test, NoAnswers, Null)
          /\ playlistView' = ViewUnmounted
          /\ loaded' = <<>>
  /\ UNCHANGED <<role, dbQuestions, dbTimeMinutes, dbOther, dbPlaylist, form, edits, views,
                 lessonView, lessonViews>>

\* LessonView is mounted for a course: loadPlaylists and loadCompletionStatus
\* decide whether the Complete Lesson button is rendered
MountLessonView(courseId) ==
  /\ lessonViews < MaxViews
  /\ lessonViews' = lessonViews + 1
  /\ page' = "lesson"
  /\ lessonView' =
       [id |-> courseId, completing |-> FALSE,
        canComplete |-> /\ role = "student"
                        /\ \E k \in 1..Len(CoursePlaylists) :
                             CoursePlaylists[k].id = courseId
                        /\ ~(/\ IsCompletedIn(dbRow, courseId)
                             /\ dbOther # Null
                                  => IsCompletedIn(dbOther, courseId))]

\* LessonView entered at /student/lesson/:id/view without passing through
\* PlaylistView: the route takes any course id and LessonView looks at no
\* availability (the dashboard links a course of a playlist when its
\* course_playlists request returned no data, and any course otherwise
\* reached from another playlist, the history or the address bar)
MountLesson(courseId) ==
  /\ page = "dashboard"
  /\ MountLessonView(courseId)
  /\ UNCHANGED <<dbVars, playlistVars, click, id, sessions, loadPc, stateVars,
                 refVars, renderVars, recorders, ghostVars>>

\* handleCourseClick on the j-th rendered course
HandleCourseClick(j) ==
  /\ ListRendered /\ ~playlistView.isTestPlaylist
  /\ j \in 1..Len(playlistView.courses)
  /\ playlistView.courses[j].is_available
  /\ MountLessonView(playlistView.courses[j].id)
  /\ playlistView' = ViewUnmounted
  /\ loaded' = <<>>
  /\ UNCHANGED <<dbVars, dbPlaylist, form, edits, views, click, id, sessions,
                 loadPc, stateVars, refVars, renderVars, recorders, ghostVars>>

\* the Back button of LessonView
LessonBack ==
  /\ page = "lesson"
  /\ page' = "dashboard"
  /\ lessonView' = LessonUnmounted
  /\ UNCHANGED <<dbVars, playlistVars, lessonViews, click, id, sessions, loadPc,
                 stateVars, refVars, renderVars, recorders, ghostVars>>

\* handleCompleteLesson up to its first await
HandleCompleteLesson ==
  /\ page = "lesson"
  /\ lessonView.canComplete
  /\ role = "student" /\ ~lessonView.completing
  /\ lessonView' = [lessonView EXCEPT !.completing = TRUE]
  /\ recorders' = Append(recorders, [by |-> "LessonView", inst |-> lessonViews,
                                     pc |-> "playlists", test |-> lessonView.id,
                                     upd |-> <<>>])
  /\ UNCHANGED <<dbVars, playlistVars, lessonViews, click, page, id, sessions,
                 loadPc, stateVars, refVars, renderVars, ghostVars>>

InitPlaylistIdle ==
  /\ dbPlaylist = FixturePlaylist
  /\ form = FormClosed
  /\ playlistView = ViewUnmounted
  /\ loaded = <<>>
  /\ edits = 0 /\ views = 0
  /\ lessonView = LessonUnmounted /\ lessonViews = 0
  /\ click = <<>>

\* ---------------------------------------------------------- specification
InitSession ==
  /\ page = "dashboard" /\ id = Null /\ sessions = 0 /\ loadPc = "none"
  /\ test = FALSE /\ questions = <<>> /\ answers = NoAnswers
  /\ timeRemaining = 0 /\ initialTime = 0 /\ error = FALSE
  /\ finished = FALSE /\ testResults = <<>> /\ playlistId = Null
  /\ questionsRef = <<>> /\ answersRef = NoAnswers
  /\ initialTimeRef = 0 /\ timeRemainingRef = 0
  /\ dirty = FALSE /\ closure = [finished |-> FALSE, playlistId |-> Null]
  /\ rendered = [test |-> FALSE, results |-> FALSE, questions |-> <<>>]
  /\ rTime = 0 /\ timers = 0 /\ timerSet = FALSE
  /\ recorders = <<>>
  /\ dispatched = 0 /\ recStarted = 0 /\ finishedBy = Null /\ ticks = 0
  /\ lateTick = FALSE /\ finishRan = {} /\ opened = {}
  /\ recordFailed = FALSE /\ scored = <<>> /\ recorded = {}
  /\ left = <<>> /\ notified = {}

\* the stored tests are the fixture; the student has no progress row yet or
\* one without completed tests
Init ==
  /\ role \in {"student", "teacher"}
  /\ dbQuestions = FixtureQuestions
  /\ dbTimeMinutes = TimeMinutes
  /\ dbOther = Null
  /\ dbRow \in {<<>>, <<[completed |-> <<>>]>>}
  /\ InitPlaylistIdle
  /\ InitSession

Next ==
  \/ \E t \in TestIds, p \in PlaylistIds \cup {Null} :
        \E a \in SessionNavAnswers : Mount(t, a, p)
  \/ ClickNavBack
  \/ HandleBack
  \/ LoadTestOk
  \/ LoadTestFail
  \/ LoadTestReject
  \/ \E questionsOk, variantsOk \in BOOLEAN : LoadQuestions(questionsOk, variantsOk)
  \/ Commit
  \/ Tick
  \/ \E q \in 0..(Len(rendered.questions) - 1) :
        \E v \in 0..(Len(rendered.questions[q + 1]) - 1) : HandleAnswerChange(q, v)
  \/ ClickFinish
  \/ \E i \in 1..Len(recorders), o \in Outcomes : RecordRead(i, o)
  \/ \E i \in 1..Len(recorders), o \in Outcomes : RecordWrite(i, o)

Spec == Init /\ [][Next]_vars

\* Loading as a function of the stored time limit: every value the column
\* can hold within the bounds, for both tests; the actions are the mount, the
\* steps of loadTest, the queued render and the Back button.
InitLoad ==
  /\ role \in {"student", "teacher"}
  /\ dbQuestions = FixtureQuestions
  /\ dbTimeMinutes \in [TestIds -> StoredTimeMinutes]
  /\ dbOther = Null
  /\ dbRow = <<>>
  /\ InitPlaylistIdle
  /\ InitSession

NextLoad ==
  \/ \E t \in TestIds, p \in PlaylistIds \cup {Null} :
        \E a \in SessionNavAnswers : Mount(t, a, p)
  \/ ClickNavBack
  \/ LoadTestOk
  \/ LoadTestFail
  \/ LoadTestReject
  \/ \E questionsOk, variantsOk \in BOOLEAN : LoadQuestions(questionsOk, variantsOk)
  \/ Commit

SpecLoad == InitLoad /\ [][NextLoad]_vars

\* lists without repeats: the values of completed_test_ids considered stored
DistinctLists(S) ==
  {l \in SeqsUpTo(S, Cardinality(S)) : \A i, j \in 1..Len(l) : i # j => l[i] # l[j]}

StoredRows == {<<>>} \cup {<<[completed |-> l]>> : l \in DistinctLists(ItemIds)}

\* one stored list for each completed set
ListOf(S) == CHOOSE l \in DistinctLists(S) : Len(l) = Cardinality(S)
StoredSets == {<<>>} \cup {<<[completed |-> ListOf(S)]>> : S \in SUBSET ItemIds}

\* Availability as a function of its inputs: playlist p1 starts without
\* items, in either access mode, as a test or a lesson playlist; the teacher
\* fills it through the form; the viewer (student with any stored progress
\* row, or teacher) opens the view.
InitPlaylist ==
  /\ role \in {"student", "teacher"}
  /\ dbQuestions = FixtureQuestions
  /\ dbTimeMinutes = TimeMinutes
  /\ dbOther = Null
  /\ dbRow \in StoredSets
  /\ \E m \in {"any", "sequential"}, kind \in {"tests", "lessons"} :
       dbPlaylist = [access_mode |-> m, kind |-> kind, items |-> <<>>]
  /\ form = FormClosed
  /\ playlistView = ViewUnmounted
  /\ loaded = <<>>
  /\ edits = 0 /\ views = 0
  /\ lessonView = LessonUnmounted /\ lessonViews = 0
  /\ click = <<>>
  /\ InitSession

NextPlaylist ==
  \/ FormOpen
  \/ \E t \in ItemIds : ToggleTestSelection(t)
  \/ HandleFinalSubmit
  \/ MountPlaylist
  \/ PlaylistBack
  \/ \E playlistOk, detailsOk \in BOOLEAN, details \in SUBSET ItemIds, o \in Outcomes :
        LoadPlaylist(playlistOk, detailsOk, details, o)

SpecPlaylist == InitPlaylist /\ [][NextPlaylist]_vars

\* lesson playlist [t1, t2]: the same ids taken as course ids
FixtureLessons ==
  [access_mode |-> "sequential", kind |-> "lessons",
   items |-> <<Row("t1", 0), Row("t2", 0)>>]

\* no row, or a row holding any subset of the two items of the playlist
ProgressRows == {<<>>} \cup {<<[completed |-> ListOf(S)]>> : S \in SUBSET TestIds}

\* Progress recording by the three components, for a student with any stored
\* row and playlist p1 a test or a lesson playlist: TestTake sessions opened
\* with location.state.playlistId = p1 and finished, 'testCompleted' events
\* reaching a mounted PlaylistView, lessons completed in LessonView; at most
\* maxRecorders recordings are in flight and their requests end in outcomes.
InitProgress ==
  /\ role = "student"
  /\ dbQuestions = FixtureQuestions
  /\ dbTimeMinutes = TimeMinutes
  /\ dbOther = Null
  /\ dbRow \in ProgressRows
  /\ dbPlaylist \in {FixturePlaylist, FixtureLessons}
  /\ form = FormClosed
  /\ playlistView = ViewUnmounted
  /\ loaded = <<>>
  /\ edits = 0 /\ views = 0
  /\ lessonView = LessonUnmounted /\ lessonViews = 0
  /\ click = <<>>
  /\ InitSession

NextProgress(maxRecorders, outcomes) ==
  \/ \E t \in TestIds : Mount(t, NoAnswers, "p1")
  \/ LoadTestOk
  \/ Commit
  \/ Len(recorders) < maxRecorders /\ ClickFinish
  \/ ClickNavBack
  \/ MountPlaylist
  \/ LoadPlaylist(TRUE, TRUE, ItemIds, "ok")
  \/ PlaylistBack
  \/ \E t \in TestIds : Len(recorders) < maxRecorders /\ HandleTestCompleted(t)
  \/ \E j \in 1..Len(playlistView.courses) : HandleCourseClick(j)
  \/ \E c \in TestIds : MountLesson(c)
  \/ LessonBack
  \/ Len(recorders) < maxRecorders /\ HandleCompleteLesson
  \/ \E i \in 1..Len(recorders), o \in outcomes : RecordPlaylists(i, o)
  \/ \E i \in 1..Len(recorders), o \in outcomes : RecordRead(i, o)
  \/ \E i \in 1..Len(recorders), o \in outcomes : RecordWrite(i, o)

NextOverlap == NextProgress(MaxRecorders, Outcomes)
SpecProgress == InitProgress /\ [][NextOverlap]_vars

\* the same with one recording at a time, every request succeeding
NextAlone == NextProgress(1, {"ok"})
SpecAlone == InitProgress /\ [][NextAlone]_vars

\* The recorders one at a time, every request succeeding, when a second
\* playlist p2 holds the lessons of p1 as well: any row of (p1, student), any
\* row of (p2, student).
InitContract ==
  /\ role = "student"
  /\ dbQuestions = FixtureQuestions
  /\ dbTimeMinutes = TimeMinutes
  /\ dbRow \in ProgressRows
  /\ dbOther \in ProgressRows
  /\ dbPlaylist \in {FixturePlaylist, FixtureLessons}
  /\ form = FormClosed
  /\ playlistView = ViewUnmounted
  /\ loaded = <<>>
  /\ edits = 0 /\ views = 0
  /\ lessonView = LessonUnmounted /\ lessonViews = 0
  /\ click = <<>>
  /\ InitSession

NextContract ==
  \/ NextAlone
  \/ \E i \in 1..Len(recorders) : RecordReadOther(i, "ok")
  \/ \E i \in 1..Len(recorders) : RecordWriteOther(i, "ok")

SpecContract == InitContract /\ [][NextContract]_vars

\* A student in front of the sequential test playlist [t1, t2], with no
\* progress row or a row with nothing completed: the playlist view is opened
\* and loaded, a test is opened from it by handleTestClick, taken and
\* finished (by the button or by the timer), and the student goes back and
\* opens the view again; every request succeeds.  TestTake is reached in no
\* other way, and the 'testCompleted' event of handleFinish is dispatched
\* while PlaylistView, on another route, is not mounted.
InitUnlock ==
  /\ role = "student"
  /\ dbQuestions = FixtureQuestions
  /\ dbTimeMinutes = TimeMinutes
  /\ dbOther = Null
  /\ dbRow \in {<<>>, <<[completed |-> <<>>]>>}
  /\ InitPlaylistIdle
  /\ InitSession

NextUnlock ==
  \/ MountPlaylist
  \/ LoadPlaylist(TRUE, TRUE, ItemIds, "ok")
  \/ PlaylistBack
  \/ \E j \in 1..Len(playlistView.tests) : HandleTestClick(j)
  \/ ClickRead("ok")
  \/ ClickWrite("ok")
  \/ LoadTestOk
  \/ LoadQuestions(TRUE, TRUE)
  \/ Commit
  \/ Tick
  \/ ClickFinish
  \/ ClickNavBack

SpecUnlock == InitUnlock /\ [][NextUnlock]_vars

\* handleTestClick as a function of the stored row: a student with any
\* progress row opens the sequential test playlist [t1, t2] and clicks a
\* test of the list; the requests of the handler end in any outcome.
InitClick ==
  /\ role = "student"
  /\ dbQuestions = FixtureQuestions
  /\ dbTimeMinutes = TimeMinutes
  /\ dbOther = Null
  /\ dbRow \in ProgressRows
  /\ InitPlaylistIdle
  /\ InitSession

NextClick ==
  \/ MountPlaylist
  \/ LoadPlaylist(TRUE, TRUE, ItemIds, "ok")
  \/ PlaylistBack
  \/ \E j \in 1..Len(playlistView.tests) : HandleTestClick(j)
  \/ \E o \in Outcomes : ClickRead(o)
  \/ \E o \in Outcomes : ClickWrite(o)
  \/ LoadTestOk
  \/ Commit
  \/ ClickNavBack

SpecClick == InitClick /\ [][NextClick]_vars

\* A teacher at work: tests taken (with or without a playlist id in the
\* location state), the view of playlist p1 opened, a test or a lesson of
\* it opened, a lesson viewed, 'testCompleted' events reaching the mounted
\* view.  Here dbRow is the row of p1 whose student_id is the id of the
\* teacher's profile: there is none at the start.
InitTeacher ==
  /\ role = "teacher"
  /\ dbQuestions = FixtureQuestions
  /\ dbTimeMinutes = TimeMinutes
  /\ dbOther = Null
  /\ dbRow = <<>>
  /\ dbPlaylist \in {FixturePlaylist, FixtureLessons}
  /\ form = FormClosed
  /\ playlistView = ViewUnmounted
  /\ loaded = <<>>
  /\ edits = 0 /\ views = 0
  /\ lessonView = LessonUnmounted /\ lessonViews = 0
  /\ click = <<>>
  /\ InitSession

NextTeacher ==
  \/ \E t \in TestIds, p \in PlaylistIds \cup {Null} : Mount(t, NoAnswers, p)
  \/ LoadTestOk
  \/ Commit
  \/ ClickFinish
  \/ ClickNavBack
  \/ MountPlaylist
  \/ LoadPlaylist(TRUE, TRUE, ItemIds, "ok")
  \/ PlaylistBack
  \/ \E j \in 1..Len(playlistView.tests) : HandleTestClick(j)
  \/ \E j \in 1..Len(playlistView.courses) : HandleCourseClick(j)
  \/ \E c \in TestIds : MountLesson(c)
  \/ LessonBack
  \/ \E t \in TestIds : Len(recorders) < MaxRecorders /\ HandleTestCompleted(t)
  \/ \E i \in 1..Len(recorders) : RecordRead(i, "ok")
  \/ \E i \in 1..Len(recorders) : RecordWrite(i, "ok")

SpecTeacher == InitTeacher /\ [][NextTeacher]_vars

\* What a student can do with the sequential playlist p1, a test playlist
\* or a lesson playlist, starting with nothing completed: the operations of
\* NextUnlock, and the lessons, opened from the playlist view
\* (handleCourseClick) or at their own route, and completed with the
\* Complete Lesson button; every request of these operations succeeds.
InitGated ==
  /\ role = "student"
  /\ dbQuestions = FixtureQuestions
  /\ dbTimeMinutes = TimeMinutes
  /\ dbOther = Null
  /\ dbRow \in {<<>>, <<[completed |-> <<>>]>>}
  /\ dbPlaylist \in {FixturePlaylist, FixtureLessons}
  /\ form = FormClosed
  /\ playlistView = ViewUnmounted
  /\ loaded = <<>>
  /\ edits = 0 /\ views = 0
  /\ lessonView = LessonUnmounted /\ lessonViews = 0
  /\ click = <<>>
  /\ InitSession

NextGated ==
  \/ NextUnlock
  \/ \E j \in 1..Len(playlistView.courses) : HandleCourseClick(j)
  \/ \E c \in TestIds : MountLesson(c)
  \/ LessonBack
  \/ HandleCompleteLesson
  \/ \E i \in 1..Len(recorders) : RecordPlaylists(i, "ok")
  \/ \E i \in 1..Len(recorders) : RecordRead(i, "ok")
  \/ \E i \in 1..Len(recorders) : RecordWrite(i, "ok")

SpecGated == InitGated /\ [][NextGated]_vars

\* Scoring as a function of its inputs: a session of test t1 (no playlist)
\* that has loaded and rendered the stored question list qs and holds the
\* answer map a, for every qs and a within the bounds; the actions are the
\* radio buttons and the Finish button.
InitScoring ==
  /\ role = "student"
  /\ dbRow = <<>>
  /\ InitPlaylistIdle
  /\ dbTimeMinutes = TimeMinutes
  /\ dbOther = Null
  /\ \E qs \in QuestionLists :
       /\ dbQuestions = [t \in TestIds |-> qs]
       /\ questions = qs /\ questionsRef = qs
       /\ rendered = [test |-> TRUE, results |-> FALSE, questions |-> qs]
       /\ answers \in AnswerMaps(Len(qs))
  /\ answersRef = answers
  /\ page = "take" /\ id = "t1" /\ sessions = 1 /\ loadPc = "done"
  /\ test = TRUE /\ error = FALSE /\ finished = FALSE
  /\ testResults = <<>> /\ playlistId = Null
  /\ timeRemaining = TotalSeconds(TimeMinutes["t1"])
  /\ initialTime = TotalSeconds(TimeMinutes["t1"])
  /\ timeRemainingRef = timeRemaining /\ initialTimeRef = initialTime
  /\ dirty = FALSE /\ closure = [finished |-> FALSE, playlistId |-> Null]
  /\ rTime = timeRemaining /\ timers = 1 /\ timerSet = TRUE
  /\ recorders = <<>>
  /\ dispatched = 0 /\ recStarted = 0 /\ finishedBy = Null /\ ticks = 0
  /\ lateTick = FALSE /\ finishRan = {} /\ opened = {"t1"}
  /\ recordFailed = FALSE /\ scored = <<>> /\ recorded = {}
  /\ left = <<>> /\ notified = {}

NextScoring ==
  \/ \E q \in 0..(Len(rendered.questions) - 1) :
        \E v \in 0..(Len(rendered.questions[q + 1]) - 1) : HandleAnswerChange(q, v)
  \/ ClickFinish

SpecScoring == InitScoring /\ [][NextScoring]_vars

\* ================================================================ claims
\* what the last handleFinish read, and the result it stored
ScoredQuestions == scored[1].questions
ScoredAnswers == scored[1].answers
Result == testResults[1]
ScoredPositions == 0..(Len(ScoredQuestions) - 1)

HasCorrectVariant(variants) == \E k \in 1..Len(variants) : variants[k]

\* position i is answered with the position of the first variant marked correct
AnsweredWithFirstCorrect(i) ==
  /\ i \in DOMAIN ScoredAnswers
  /\ \E k \in 1..Len(ScoredQuestions[i + 1]) :
       /\ ScoredQuestions[i + 1][k]
       /\ \A j \in 1..(k - 1) : ~ScoredQuestions[i + 1][j]
       /\ ScoredAnswers[i] = k - 1

InRange(i) ==
  /\ ScoredAnswers[i] >= 0
  /\ ScoredAnswers[i] < Len(ScoredQuestions[i + 1])

\* C1: once handleFinish has run and the session is Finished, no later step of
\* the session changes testResults, dispatches another 'testCompleted' or
\* starts another read / write of playlist_student_progress.
C1_IdempotentFinish ==
  [][(finished /\ finished') =>
       (testResults' = testResults /\ dispatched' = dispatched
        /\ recStarted' = recStarted)]_vars

\* C2: whatever the interleaving of the expiring timer callback and a click on
\* Finish, exactly one finish computes the result, dispatches 'testCompleted'
\* and starts progress recording.
C2_FinishRace ==
  /\ finished => (dispatched = 1 /\ testResults # <<>>)
  /\ recStarted <= 1

\* C3 (timer expiry): the timeTaken stored by the finish that the expiring
\* timer triggers is the number of ticks elapsed since load, which is the
\* whole initial time (60 for the one-minute test).
C3_TimeTaken ==
  (finishedBy = "timer" /\ testResults # <<>>) =>
     (Result.timeTaken = ticks /\ Result.timeTaken = initialTime)

\* C4: for every question list and every answer map of positions (>= 0, in
\* range or not, answered or not): total is the number of questions, correct
\* the number of positions answered with the position of the first variant
\* marked correct, wrong = total - correct; all answered so gives
\* correct = total, no answer gives correct = 0.
C4_Scoring ==
  (scored # <<>> /\ \A i \in DOMAIN ScoredAnswers : ScoredAnswers[i] >= 0) =>
     LET right == {i \in ScoredPositions : AnsweredWithFirstCorrect(i)}
     IN /\ Result.total = Len(ScoredQuestions)
        /\ Result.correct = Cardinality(right)
        /\ Result.wrong = Result.total - Result.correct
        /\ (right = ScoredPositions) => (Result.correct = Result.total /\ Result.wrong = 0)
        /\ (DOMAIN ScoredAnswers = {}) => (Result.correct = 0 /\ Result.wrong = Result.total)

C4_Witness ==
  /\ scored # <<>>
  /\ Len(ScoredQuestions) = 2
  /\ ScoredQuestions[1] = <<TRUE, TRUE>>
  /\ DOMAIN ScoredAnswers = {0}
  /\ ScoredAnswers[0] = 0
  /\ Result.correct = 1 /\ Result.wrong = 1

C6_OutOfRange ==
  scored # <<>> =>
     LET outside == {i \in ScoredPositions :
                       /\ HasCorrectVariant(ScoredQuestions[i + 1])
                       /\ i \in DOMAIN ScoredAnswers
                       /\ ~InRange(i)}
     IN /\ finished /\ testResults # <<>>
        /\ \A i \in outside : ~IsCountedCorrect(ScoredQuestions, ScoredAnswers, i)
        /\ Result.wrong >= Cardinality(outside)
        /\ Result.correct + Result.wrong = Len(ScoredQuestions)

C6_Witness ==
  /\ scored # <<>>
  /\ Len(ScoredQuestions) = 2
  /\ HasCorrectVariant(ScoredQuestions[1]) /\ HasCorrectVariant(ScoredQuestions[2])
  /\ DOMAIN ScoredAnswers = {0, 1}
  /\ ScoredAnswers[0] = Len(ScoredQuestions[1])
  /\ ScoredAnswers[1] = -1
  /\ Result.wrong = 2

\* C7: after the session has become Finished neither the answer map nor the
\* remaining time changes.
C7_FinishedTerminal ==
  [][(finished /\ finished') =>
       (answers' = answers /\ timeRemaining' = timeRemaining)]_vars

\* C8: at most one interval is scheduled, none once the finished session has
\* been rendered or TestTake is unmounted, and no timer callback runs after
\* finish or after unmount.
C8_TimerCancelled ==
  /\ timers <= 1
  /\ ~lateTick
  /\ page # "take" => timers = 0
  /\ (finished /\ ~dirty) => timers = 0

C8_Witness ==
  /\ page = "take" /\ finished /\ ~dirty
  /\ finishedBy = "click"
  /\ ticks > 0 /\ timeRemaining > 0
  /\ timers = 0

\* C9: a test id is in the completed list, or in a recording under way, only
\* if a session of that test ran finish; leaving TestTake records nothing.
C9_NoCompletionWithoutFinish ==
  /\ dbRow # <<>> =>
       \A j \in 1..Len(dbRow[1].completed) : dbRow[1].completed[j] \in finishRan
  /\ \A j \in 1..Len(recorders) : recorders[j].test \in finishRan

C9_Witness ==
  /\ page # "take"
  /\ opened = {"t1", "t2"}
  /\ finishRan = {"t1"}
  /\ recorders = <<>>
  /\ dbRow = <<[completed |-> <<"t1">>]>>

\* C10: a failed or rejected progress request leaves the session Finished
\* with its result stored, and the rendered screen is the result screen.
C10_RecordFailureKeepsResult ==
  (page = "take" /\ recordFailed) =>
     /\ finished
     /\ testResults # <<>>
     /\ ~dirty => rendered.results

C10_Witness ==
  /\ page = "take" /\ recordFailed
  /\ recorders = <<>>
  /\ rendered.results
  /\ dbRow = <<>>

\* the session is InProgress: the test is set and the session has not finished
InProgress == test /\ ~finished

\* C11: the step in which loadTest receives the tests row leaves remaining
\* time and initial time at the stored time limit in minutes x 60, whatever
\* the stored value, and the session InProgress.
C11_Load ==
  [][(loadPc = "fetchTest" /\ loadPc' = "fetchQuestions") =>
       /\ timeRemaining' = dbTimeMinutes[id] * SecondsPerMinute
       /\ initialTime' = dbTimeMinutes[id] * SecondsPerMinute
       /\ InProgress']_vars

\* C12: once fetching the test has failed, the test stays unset, remaining
\* time stays 0, no interval is scheduled, the session does not finish and
\* loadTest is not started again.
C12_LoadFailure ==
  (error \/ loadPc = "failed") =>
     /\ loadPc = "failed"
     /\ ~test /\ ~rendered.test
     /\ timeRemaining = 0 /\ initialTime = 0
     /\ timers = 0 /\ ~timerSet
     /\ ~finished /\ testResults = <<>> /\ dispatched = 0 /\ recStarted = 0

C12_Witness ==
  /\ page = "take" /\ error /\ ~dirty
  /\ playlistId # Null /\ role = "student"
  /\ sessions = 2 /\ finishRan # {}

\* ---- availability (PlaylistView.loadPlaylist)
Loaded == loaded[1]
Shown == IF playlistView.isTestPlaylist THEN playlistView.tests
         ELSE playlistView.courses
\* position in the ordered list read by the load of the item shown at j
PositionOf(j) == CHOOSE k \in 1..Len(Loaded.rows) : Loaded.rows[k].id = Shown[j].id
\* a load has ended, every request of it having succeeded
LoadedOk == playlistView.pc = "done" /\ loaded # <<>> /\ ~Loaded.failed

\* C13: student, sequential playlist: the load ends with the list of items,
\* the first item of the ordered list is available and a later one is
\* available iff the item immediately before it in the ordered list is in
\* the completed set.
C13_SequentialGating ==
  (LoadedOk /\ role = "student" /\ dbPlaylist.access_mode = "sequential") =>
     /\ ~playlistView.error
     /\ \A j \in 1..Len(Shown) :
          Shown[j].is_available <=>
            (PositionOf(j) = 1
             \/ Includes(Loaded.completed, Loaded.rows[PositionOf(j) - 1].id))

\* C14: access mode 'any', or a teacher viewing: every item is available,
\* whatever the stored completed set.
C14_Ungated ==
  (LoadedOk /\ (role = "teacher" \/ dbPlaylist.access_mode = "any")) =>
     /\ ~playlistView.error
     /\ Len(Shown) = Cardinality({k \in 1..Len(Loaded.rows) :
                                    Loaded.rows[k].id \in Loaded.details})
     /\ \A j \in 1..Len(Shown) : Shown[j].is_available

C14_Witness ==
  /\ LoadedOk /\ role = "teacher" /\ dbPlaylist.access_mode = "sequential"
  /\ playlistView.isTestPlaylist
  /\ Len(Shown) = 2
  /\ Shown[1].order_index = 2 /\ Shown[2].order_index = 2
  /\ Loaded.stored = <<Shown[2].id>>

\* C15: whatever the item list and the completed set, a load whose requests
\* succeed ends with a list of items and not in the error state; an empty
\* item list gives an empty list.
C15_AvailabilityTotal ==
  LoadedOk =>
     /\ ~playlistView.error
     /\ playlistView.playlist
     /\ Loaded.rows = <<>> => Shown = <<>>

\* completed_test_ids of the (p1, student) row; no row: nothing completed
StoredList == IF dbRow = <<>> THEN <<>> ELSE dbRow[1].completed
StoredSet == {StoredList[j] : j \in 1..Len(StoredList)}
Count(list, x) == Cardinality({j \in 1..Len(list) : list[j] = x})

\* C16: a completion recording run alone, every request succeeding, from no
\* row, a row without the item or a row with it: the step that ends it leaves
\* a row whose completed set is the prior set with the item added, the item
\* in the list exactly once, and leaves the row as it was when the item was
\* already there (a second run changes nothing); the steps before it leave
\* the row as it was.
C16_RecordCompletion ==
  [][IF /\ Len(recorders) = 1 /\ recorders' = <<>>
        /\ recorders[1].pc \in {"read", "update", "insert"}
     THEN /\ dbRow' # <<>>
          /\ StoredSet' = StoredSet \cup {recorders[1].test}
          /\ Count(StoredList', recorders[1].test) = 1
          /\ recorders[1].test \in StoredSet => dbRow' = dbRow
     ELSE dbRow' = dbRow]_vars

\* a recording of t1 has ended with t1 stored, once and alone, and a second
\* recording of t1 is about to read the row
C16_Witness ==
  /\ "t1" \in recorded /\ StoredList = <<"t1">>
  /\ Len(recorders) = 1 /\ recorders[1].pc = "read" /\ recorders[1].test = "t1"

\* C17: in every reachable state, whatever the interleaving of the reads
\* and writes of overlapping recordings by TestTake, PlaylistView and
\* LessonView and whatever the outcome of each request, the stored
\* completed list holds no id twice.
C17_NoDuplicates == \A x \in StoredSet : Count(StoredList, x) = 1

\* a recording that read the row before an overlapping recording of the
\* same item stored it is about to write its own list
C17_Witness ==
  \E i \in 1..Len(recorders) :
    /\ recorders[i].pc \in {"update", "insert"}
    /\ recorders[i].test \in recorded
    /\ recorders[i].test \in StoredSet

\* C18: in every step, overlapping recordings included, the stored
\* completed set after the step contains the stored completed set before it.
C18_Monotonic == [][StoredSet \subseteq StoredSet']_vars

\* C19: once no recording is in flight, every item whose recording ended
\* with the item stored (found in the row it read, or written by its update
\* or insert) is in the stored completed set.
C19_NoLostUpdate == recorders = <<>> => recorded \subseteq StoredSet

\* C20: student, sequential playlist [t1, t2]: when t1 has been opened from
\* the playlist view and finished, no request is pending and the view,
\* opened again, has ended a load all of whose requests succeeded, then t1 is
\* in the stored completed set and the view shows t2 available.
C20_Unlock ==
  (/\ "t1" \in finishRan /\ recorders = <<>> /\ click = <<>>
   /\ page = "playlist" /\ LoadedOk)
    => /\ "t1" \in StoredSet
       /\ \E j \in 1..Len(Shown) : Shown[j].id = "t2" /\ Shown[j].is_available

\* the step ends the i-th recording after its write request has resolved,
\* or with the item found in the row
EndsAcknowledged(i) ==
  /\ recorders' = RemoveAt(recorders, i)
  /\ \/ recorders[i].pc \in {"update", "insert"}
     \/ recorders[i].test \in StoredSet

C23_OneContract ==
  [][/\ IF /\ Len(recorders) = 1
           /\ recorders[1].pc \in {"read", "update", "insert"}
           /\ recorders' = <<>> \/ recorders'[1].pc = "readOther"
        THEN dbRow' # <<>> /\ StoredSet' = StoredSet \cup {recorders[1].test}
        ELSE dbRow' = dbRow
     /\ dbOther' = dbOther]_vars

\* C24: when TestTake is entered again for the test of the unfinished
\* session that was left, with an answer map in location.state, every
\* position that session had answered is still answered (with its own answer
\* or with the supplied one).
C24_ResumeMerge ==
  [][(/\ page # "take" /\ page' = "take"
      /\ left # <<>> /\ left[1].id = id'
      /\ answers' # NoAnswers)
       => \A p \in DOMAIN left[1].answers : p \in DOMAIN answers']_vars

\* C26: within one attempt (an unfinished session is left and TestTake is
\* entered again for the same test with the answers of the document view)
\* the remaining time set by loadTest is not above the remaining time the
\* session had when it was left.
C26_TimeCarriedForward ==
  [][(/\ loadPc = "fetchTest" /\ loadPc' = "fetchQuestions"
      /\ left # <<>> /\ left[1].id = id
      /\ answers # NoAnswers)
       => timeRemaining' <= left[1].timeRemaining]_vars

\* C25: in every state of a session 0 <= timeRemaining <= initialTime and a
\* computed timeTaken is between 0 and initialTime; a timer callback delivered
\* to the mounted TestTake lowers timeRemaining by exactly 1, not below 0.
C25_TimeBounds ==
  /\ [](/\ 0 <= timeRemaining /\ timeRemaining <= initialTime
        /\ testResults # <<>> =>
              /\ 0 <= testResults[1].timeTaken
              /\ testResults[1].timeTaken <= initialTime)
  /\ [][(page = "take" /\ ticks' = ticks + 1)
          => /\ timeRemaining' = timeRemaining - 1
             /\ timeRemaining' >= 0]_vars

\* a session finished by a click after one tick, with one second taken
C25_Witness ==
  /\ page = "take" /\ finished /\ ticks = 1
  /\ testResults # <<>> /\ testResults[1].timeTaken = 1
  /\ timeRemaining = initialTime - 1

\* C27: in a sequential playlist an item other than the first is in the
\* stored completed set of the student only if the item before it in the
\* order is in it too.
C27_GatedCompletion ==
  dbPlaylist.access_mode = "sequential" =>
    \A k \in 2..Len(dbPlaylist.items) :
       dbPlaylist.items[k].id \in StoredSet
         => dbPlaylist.items[k - 1].id \in StoredSet

\* C28: when handleCompleteLesson reports success ('lessonCompleted' is
\* dispatched for a lesson), the lesson id is in the stored completed set of
\* every playlist that holds the lesson.
C28_TruthfulCompletion ==
  [][\A c \in notified' \ notified :
        /\ IsCompletedIn(dbRow', c)
        /\ dbOther' # Null => IsCompletedIn(dbOther', c)]_vars

\* C29: handleTestClick starts its requests only for a test rendered as
\* available; it leaves the completed set of an existing progress row as it
\* is, a row it creates has an empty completed set, and TestTake is entered
\* from the playlist view only at the end of such a click.
C29_ClickFrame ==
  [][/\ (click = <<>> /\ click' # <<>>) =>
          \E j \in 1..Len(playlistView.tests) :
             /\ playlistView.tests[j].id = click'[1].test
             /\ playlistView.tests[j].is_available
     /\ dbRow # <<>> => dbRow' # <<>> /\ dbRow'[1].completed = dbRow[1].completed
     /\ (dbRow = <<>> /\ dbRow' # <<>>) =>
          /\ click # <<>> /\ click[1].pc = "insert"
          /\ dbRow'[1].completed = <<>>
     /\ (page # "take" /\ page' = "take") =>
          /\ click # <<>> /\ id' = click[1].test]_vars

\* a click on t2, available because t1 is completed, has updated the
\* existing row and entered TestTake
C29_Witness ==
  /\ page = "take" /\ id = "t2" /\ click = <<>>
  /\ dbRow # <<>> /\ StoredSet = {"t1"}

====
